---- MODULE Spec2Model ----
(***************************************************************************)
(* Model of the craft-toolkit-ts parameter / function encoding classes     *)
(* (iParameter, iFunctionParameter, iInstanceParameter, iParameterName,    *)
(* iFunction) and of the ContractCreate assembly that their callers do.    *)
(*                                                                         *)
(* JavaScript values are tagged records, so that a value of the wrong      *)
(* class stored in a field (the constructors do not check their arguments) *)
(* is representable.  Strings are sequences of code points, so that hex    *)
(* encoding is computed rather than assumed.  A call returns Ok(v) or      *)
(* Throw(e).                                                               *)
(***************************************************************************)
EXTENDS Integers, Sequences, FiniteSets, TLC

\* The field names of the records below, in the order every record lists them.
\* TLC orders the fields of a record by their first occurrence in the module:
\* a record written in this order is already in TLC's normal form.
Layout ==
  [k |-> 0, cls |-> 0, name |-> 0, parameters |-> 0, flag |-> 0, type |-> 0,
   value |-> 0, isHex |-> 0, n |-> 0, s |-> 0, b |-> 0, items |-> 0,
   ok |-> 0, val |-> 0, err |-> 0, op |-> 0, args |-> 0, res |-> 0,
   Parameter |-> 0, InstanceParameter |-> 0, InstanceParameterValue |-> 0,
   Function |-> 0, FunctionName |-> 0, Parameters |-> 0,
   ParameterFlag |-> 0, ParameterType |-> 0, ParameterValue |-> 0,
   TransactionType |-> 0, Account |-> 0, ContractCode |-> 0, Flags |-> 0,
   InstanceParameters |-> 0, InstanceParameterValues |-> 0, Functions |-> 0,
   Fee |-> 0,
   fn |-> 0, account |-> 0, step |-> 0, to |-> 0, amount |-> 0, ret |-> 0,
   reward |-> 0, event |-> 0, counter |-> 0, total |-> 0]

VARIABLES
  self,   \* the model object the next method call is made on
  made,   \* the call that last assigned the fields of self, with its arguments
  out,    \* the most recent call: its name, its arguments and what it returned
  objs,   \* the objects the async methods of a manager hold, by slot
  given,  \* for each slot, the class and the constructor arguments of its object
  rets,   \* for each caller, its most recent toXrpl() call: the slot and the result
  files,  \* the file system: the bytes of every file that exists, by path
  read,   \* the most recent call of utils.ts: its name, its path and what it returned
  max_value,  \* counter contract: instance parameter 0, once deployed
  counter,    \* counter contract: the data "counter" of every account
  total,      \* counter contract: the data "total_increments" of every account
  ncalls,     \* counter contract: the calls made since deployment
  script,     \* how many calls of the tutorial's main() the wallet has made, in
              \* order and with no other call of its own; -1 once it made another
  last,       \* counter contract: the most recent call and what it did
  balance,    \* token contract: the data "balance_" of every account
  paid,       \* token contract: the most recent call and what it returned
  total_supply, \* token contract: the data "total_supply" of the contract account
  npaid       \* token contract: the calls made so far

vars == <<self, made, out, objs, given, rets, files, read,
          max_value, counter, total, ncalls, script, last, balance, paid,
          total_supply, npaid>>

\* the object a test works on and its calls
object == <<self, made, out>>

\* the part of the state the callers of one manager share
heap == <<objs, given, rets>>

\* the part of the state utils.ts works on
disk == <<files, read>>

\* the ledger data of the tutorial's counter contract
chain == <<max_value, counter, total, ncalls, script, last>>

\* the ledger data of the Simple Token contract
bank == <<balance, paid, total_supply, npaid>>

----------------------------------------------------------------------------
(* JavaScript values *)

Undefined == [k |-> "undefined"]

Null == [k |-> "null"]

Num(n) == [k |-> "number", n |-> n]

Str(s) == [k |-> "string", s |-> s]

Bool(b) == [k |-> "boolean", b |-> b]

Array(items) == [k |-> "array", items |-> items]

Ok(v) == [ok |-> TRUE, val |-> v]

Throw(e) == [ok |-> FALSE, err |-> e]

\* the i-th actual argument of a call; a missing argument reads as undefined
Arg(args, i) == IF i <= Len(args) THEN args[i] ELSE Undefined

\* ToBoolean
Truthy(v) ==
  CASE v.k = "undefined" -> FALSE
    [] v.k = "null"      -> FALSE
    [] v.k = "boolean"   -> v.b
    [] v.k = "number"    -> v.n # 0
    [] v.k = "string"    -> v.s # <<>>
    [] OTHER             -> TRUE

\* reading a property of undefined or null throws a TypeError
HasProps(v) == v.k \notin {"undefined", "null"}

\* v.value for a value that has properties; a primitive has no such property
Value(v) == IF v.k = "object" /\ "value" \in DOMAIN v THEN v.value ELSE Undefined

IsA(v, cls) == v.k = "object" /\ v.cls = cls

----------------------------------------------------------------------------
(* Text and hex *)

\* the upper-case hex digit of d in 0..15, as a code point
HexDigit(d) == IF d < 10 THEN 48 + d ELSE 55 + d

\* the UTF-8 bytes of one code point of the basic multilingual plane
UTF8(cp) ==
  IF cp < 128 THEN <<cp>>
  ELSE IF cp < 2048 THEN <<192 + (cp \div 64), 128 + (cp % 64)>>
  ELSE <<224 + (cp \div 4096), 128 + ((cp \div 64) % 64), 128 + (cp % 64)>>

RECURSIVE utf8Encode(_)
utf8Encode(s) == IF s = <<>> THEN <<>> ELSE UTF8(Head(s)) \o utf8Encode(Tail(s))

RECURSIVE bytesToHex(_)
bytesToHex(bs) ==
  IF bs = <<>> THEN <<>>
  ELSE <<HexDigit(Head(bs) \div 16), HexDigit(Head(bs) % 16)>> \o bytesToHex(Tail(bs))

\* @transia/xrpl convertStringToHex: the UTF-8 bytes of the string, in upper-case hex
convertStringToHex(s) == bytesToHex(utf8Encode(s))

\* the value of a hex digit, in either case
HexValue(c) == IF c \in 48 .. 57 THEN c - 48 ELSE IF c \in 65 .. 70 THEN c - 55 ELSE c - 87

\* the bytes a string of hex digits stands for
RECURSIVE hexToBytes(_)
hexToBytes(h) ==
  IF Len(h) < 2 THEN <<>>
  ELSE <<16 * HexValue(h[1]) + HexValue(h[2])>> \o hexToBytes(SubSeq(h, 3, Len(h)))

\* a continuation byte of UTF-8
IsContinuation(b) == b \in 128 .. 191

\* the code points of a byte string read as UTF-8 (basic multilingual plane); a
\* byte that starts no well-formed sequence reads as U+FFFD
RECURSIVE utf8Decode(_)
utf8Decode(bs) ==
  IF bs = <<>> THEN <<>>
  ELSE IF bs[1] < 128 THEN <<bs[1]>> \o utf8Decode(Tail(bs))
  ELSE IF bs[1] \in 194 .. 223 /\ Len(bs) >= 2 /\ IsContinuation(bs[2])
       THEN <<(bs[1] - 192) * 64 + (bs[2] - 128)>> \o utf8Decode(SubSeq(bs, 3, Len(bs)))
  ELSE IF /\ bs[1] \in 224 .. 239 /\ Len(bs) >= 3
          /\ IsContinuation(bs[2]) /\ IsContinuation(bs[3])
          /\ (bs[1] = 224 => bs[2] >= 160) /\ (bs[1] = 237 => bs[2] < 160)
       THEN <<(bs[1] - 224) * 4096 + (bs[2] - 128) * 64 + (bs[3] - 128)>>
            \o utf8Decode(SubSeq(bs, 4, Len(bs)))
  ELSE <<65533>> \o utf8Decode(Tail(bs))

\* as convertHexToString, reading every byte as one character
convertHexToString_latin1(h) == hexToBytes(h)

\* @transia/xrpl convertHexToString: the bytes of the hex string, read as UTF-8
convertHexToString(h) == utf8Decode(hexToBytes(h))

\* code points of 0-9, A-F, a-f
HexChars == (48 .. 57) \cup (65 .. 70) \cup (97 .. 102)

IsWellFormedHex(s) == Len(s) % 2 = 0 /\ \A i \in 1 .. Len(s) : s[i] \in HexChars

----------------------------------------------------------------------------
(* Leaf classes: each holds one value *)

iParameterFlag_new(v) == [k |-> "object", cls |-> "iParameterFlag", value |-> v]

iParameterType_new(v) == [k |-> "object", cls |-> "iParameterType", value |-> v]

iParameterValue_new(v) == [k |-> "object", cls |-> "iParameterValue", value |-> v]

----------------------------------------------------------------------------
(* iParameterName *)

iParameterName_new(args) ==
  [k |-> "object", cls |-> "iParameterName",
   value |-> Arg(args, 1),
   isHex |-> IF Truthy(Arg(args, 2)) THEN Arg(args, 2) ELSE Bool(FALSE)]

\* static iParameterName.fromHex(hexValue)
iParameterName_fromHex(hexValue) ==
  iParameterName_new(<<Str(convertHexToString(hexValue.s))>>)

iParameterName_toHex(this) == Ok(Str(convertStringToHex(this.value.s)))

----------------------------------------------------------------------------
(* iFunctionName *)

iFunctionName_new(args) ==
  [k |-> "object", cls |-> "iFunctionName",
   value |-> Arg(args, 1),
   isHex |-> IF Truthy(Arg(args, 2)) THEN Arg(args, 2) ELSE Bool(FALSE)]

iFunctionName_toHex(this) ==
  IF Truthy(this.isHex)
  THEN IF IsWellFormedHex(this.value.s) THEN Ok(this.value) ELSE Throw("InvalidHex")
  ELSE Ok(Str(convertStringToHex(this.value.s)))

----------------------------------------------------------------------------
(* iParameter *)

iParameter_new(args) ==
  [k |-> "object", cls |-> "iParameter",
   flag |-> Arg(args, 1), type |-> Arg(args, 2), value |-> Arg(args, 3)]

\* as iParameter_fromHex, without the assignment to this.value
iParameter_fromHex_keepingValue(this, flag, type, value) ==
  [this EXCEPT !.flag = iParameterFlag_new(Num(flag)),
               !.type = iParameterType_new(Str(type))]

iParameter_fromHex(this, flag, type, value) ==
  [this EXCEPT !.flag = iParameterFlag_new(Num(flag)),
               !.type = iParameterType_new(Str(type)),
               !.value = iParameterValue_new(Str(value))]

\* as iParameter_toXrpl, with the type tag and the value in each other's place
iParameter_toXrpl_swapped(this) ==
  IF ~HasProps(this.flag) \/ ~HasProps(this.type) \/ ~HasProps(this.value)
  THEN Throw("TypeError")
  ELSE Ok([Parameter |->
            [ParameterFlag |-> Value(this.flag),
             ParameterValue |-> [type |-> Value(this.value),
                                 value |-> Value(this.type)]]])

iParameter_toXrpl(this) ==
  IF ~HasProps(this.flag) \/ ~HasProps(this.type) \/ ~HasProps(this.value)
  THEN Throw("TypeError")
  ELSE Ok([Parameter |->
            [ParameterFlag |-> Value(this.flag),
             ParameterValue |-> [type |-> Value(this.type),
                                 value |-> Value(this.value)]]])

----------------------------------------------------------------------------
(* iFunctionParameter *)

iFunctionParameter_new(args) ==
  [k |-> "object", cls |-> "iFunctionParameter",
   flag |-> Arg(args, 1), type |-> Arg(args, 2)]

iFunctionParameter_fromHex(this, flag, name, value) ==
  [this EXCEPT !.flag = iParameterFlag_new(Num(flag)),
               !.type = iParameterType_new(Str(value))]

\* as iFunctionParameter_toXrpl, copied from iParameter.toXrpl with its value field
iFunctionParameter_toXrpl_valued(this) ==
  IF ~HasProps(this.flag) \/ ~HasProps(this.type)
  THEN Throw("TypeError")
  ELSE Ok([Parameter |->
            [ParameterFlag |-> Value(this.flag),
             ParameterValue |-> [type |-> Value(this.type),
                                 value |-> Undefined]]])

iFunctionParameter_toXrpl(this) ==
  IF ~HasProps(this.flag) \/ ~HasProps(this.type)
  THEN Throw("TypeError")
  ELSE Ok([Parameter |->
            [ParameterFlag |-> Value(this.flag),
             ParameterType |-> [type |-> Value(this.type)]]])

----------------------------------------------------------------------------
(* iInstanceParameter *)

iInstanceParameter_new(args) ==
  [k |-> "object", cls |-> "iInstanceParameter",
   flag |-> Arg(args, 1), type |-> Arg(args, 2)]

iInstanceParameter_fromHex(this, flag, value) ==
  [this EXCEPT !.flag = iParameterFlag_new(Num(flag)),
               !.type = iParameterType_new(Str(value))]

iInstanceParameter_toXrpl(this) ==
  IF ~HasProps(this.flag) \/ ~HasProps(this.type)
  THEN Throw("TypeError")
  ELSE Ok([InstanceParameter |->
            [ParameterFlag |-> Value(this.flag),
             ParameterType |-> [type |-> Value(this.type)]]])

----------------------------------------------------------------------------
(* iInstanceParameterValue *)

iInstanceParameterValue_new(args) ==
  [k |-> "object", cls |-> "iInstanceParameterValue",
   flag |-> Arg(args, 1), type |-> Arg(args, 2), value |-> Arg(args, 3)]

iInstanceParameterValue_toXrpl(this) ==
  IF ~HasProps(this.flag) \/ ~HasProps(this.type) \/ ~HasProps(this.value)
  THEN Throw("TypeError")
  ELSE Ok([InstanceParameterValue |->
            [ParameterFlag |-> Value(this.flag),
             ParameterValue |-> [type |-> Value(this.type),
                                 value |-> Value(this.value)]]])

----------------------------------------------------------------------------
(* iFunction *)

iFunction_new(args) ==
  [k |-> "object", cls |-> "iFunction",
   name |-> Arg(args, 1), parameters |-> Arg(args, 2)]

iFunction_fromHex(this, name, parameters) ==
  [this EXCEPT !.name = iFunctionName_new(<<Str(name)>>),
               !.parameters = parameters]

\* as Map, with a callback that swallows what it throws: the results of the
\* elements that gave one
Map_swallowing(rs) ==
  LET RECURSIVE kept(_)
      kept(i) == IF i = 0 THEN <<>>
                 ELSE IF rs[i].ok THEN Append(kept(i - 1), rs[i].val) ELSE kept(i - 1)
  IN Ok(kept(Len(rs)))

\* Array.prototype.map with a callback that may throw: the results in order, or
\* the first throw
\* (rs is what the callback gives for each element)
Map(rs) ==
  IF \E i \in 1 .. Len(rs) : ~rs[i].ok
  THEN rs[CHOOSE i \in 1 .. Len(rs) : ~rs[i].ok /\ \A j \in 1 .. (i - 1) : rs[j].ok]
  ELSE Ok([i \in 1 .. Len(rs) |-> rs[i].val])

\* as iFunction_toXrpl, emitting Parameters for every list, the missing ones
\* read as empty
iFunction_toXrpl_always(this) ==
  IF ~HasProps(this.name) THEN Throw("TypeError")
  ELSE
    LET FunctionName == IF ~Truthy(this.name.isHex)
                        THEN iFunctionName_toHex(this.name)
                        ELSE Ok(this.name.value)
        items == IF Truthy(this.parameters) THEN this.parameters.items ELSE <<>>
    IN IF ~FunctionName.ok THEN FunctionName
       ELSE LET ps == Map([i \in 1 .. Len(items) |-> iFunctionParameter_toXrpl(items[i])])
            IN IF ~ps.ok THEN ps
               ELSE Ok([Function |-> [FunctionName |-> FunctionName.val,
                                      Parameters |-> ps.val]])

\* as iFunction_toXrpl, with the test of isHex inverted
iFunction_toXrpl_inverted(this) ==
  IF ~HasProps(this.name) THEN Throw("TypeError")
  ELSE
    LET FunctionName == IF Truthy(this.name.isHex)
                        THEN iFunctionName_toHex(this.name)
                        ELSE Ok(this.name.value)
    IN IF ~FunctionName.ok THEN FunctionName
       ELSE IF Truthy(this.parameters) /\ Len(this.parameters.items) > 0
       THEN LET ps == Map([i \in 1 .. Len(this.parameters.items) |->
                             iFunctionParameter_toXrpl(this.parameters.items[i])])
            IN IF ~ps.ok THEN ps
               ELSE Ok([Function |-> [FunctionName |-> FunctionName.val,
                                      Parameters |-> ps.val]])
       ELSE Ok([Function |-> [FunctionName |-> FunctionName.val]])

\* as iFunction_toXrpl, with the parameters pushed to the front of the list
iFunction_toXrpl_reversed(this) ==
  IF ~HasProps(this.name) THEN Throw("TypeError")
  ELSE
    LET FunctionName == IF ~Truthy(this.name.isHex)
                        THEN iFunctionName_toHex(this.name)
                        ELSE Ok(this.name.value)
    IN IF ~FunctionName.ok THEN FunctionName
       ELSE IF Truthy(this.parameters) /\ Len(this.parameters.items) > 0
       THEN LET ps == Map([i \in 1 .. Len(this.parameters.items) |->
                             iFunctionParameter_toXrpl(this.parameters.items[i])])
            IN IF ~ps.ok THEN ps
               ELSE Ok([Function |->
                         [FunctionName |-> FunctionName.val,
                          Parameters |-> [i \in 1 .. Len(ps.val) |->
                                            ps.val[Len(ps.val) + 1 - i]]]])
       ELSE Ok([Function |-> [FunctionName |-> FunctionName.val]])

iFunction_toXrpl(this) ==
  IF ~HasProps(this.name) THEN Throw("TypeError")
  ELSE
    LET FunctionName == IF ~Truthy(this.name.isHex)
                        THEN iFunctionName_toHex(this.name)
                        ELSE Ok(this.name.value)
    IN IF ~FunctionName.ok THEN FunctionName
       ELSE IF Truthy(this.parameters) /\ Len(this.parameters.items) > 0
       THEN LET ps == Map([i \in 1 .. Len(this.parameters.items) |->
                             iFunctionParameter_toXrpl(this.parameters.items[i])])
            IN IF ~ps.ok THEN ps
               ELSE Ok([Function |-> [FunctionName |-> FunctionName.val,
                                      Parameters |-> ps.val]])
       ELSE Ok([Function |-> [FunctionName |-> FunctionName.val]])

----------------------------------------------------------------------------
(* Bounds *)

\* parameter lists are enumerated exhaustively up to this length
MaxShortLen == 2

\* function lists of an assembly are enumerated exhaustively up to this length
MaxShortFns == 2

\* how far beyond a documented limit the long lists go
MaxOver == 1

\* the async methods of a manager that may be in flight at once
NCallers == 3

\* the objects they hold between them
NObjects == 2

\* the longest file, in bytes
MaxFileLen == 2

\* the calls made to the counter contract after its deployment
MaxCalls == 4

----------------------------------------------------------------------------
(* Program constants and the text the callers use *)

tfSendAmount == 65536

tfImmutable == 65536

MaxFunctionParameters == 32

MaxFunctions == 12

ACCOUNT == <<65, 67, 67, 79, 85, 78, 84>>

AMOUNT == <<65, 77, 79, 85, 78, 84>>

UINT8 == <<85, 73, 78, 84, 56>>

\* "base"
txt_base == <<98, 97, 115, 101>>

\* "transfer"
txt_transfer == <<116, 114, 97, 110, 115, 102, 101, 114>>

\* "account"
txt_account == <<97, 99, 99, 111, 117, 110, 116>>

\* "amount"
txt_amount == <<97, 109, 111, 117, 110, 116>>

\* "café": one character outside ASCII
txt_cafe == <<99, 97, 102, 233>>

\* "62617365", the hex of "base"
hex_base == <<54, 50, 54, 49, 55, 51, 54, 53>>

\* "7472616E73666572", the hex of "transfer"
hex_transfer == <<55, 52, 55, 50, 54, 49, 54, 69, 55, 51, 54, 54, 54, 53, 55, 50>>

\* "616D6F756E74", the hex of "amount"
hex_amount == <<54, 49, 54, 68, 54, 70, 55, 53, 54, 69, 55, 52>>

\* "2000000000", xrpToDrops('2000')
drops_2000 == <<50, 48, 48, 48, 48, 48, 48, 48, 48, 48>>

----------------------------------------------------------------------------
(* The arguments the callers pass *)

Flags == {0, tfSendAmount}

TypeTags == {ACCOUNT, AMOUNT, UINT8}

Values == {Num(1), Num(255), Num(256), Str(drops_2000)}

SeqsUpTo(S, n) == UNION {[1 .. m -> S] : m \in 0 .. n}

\* new iFunctionParameter(flag, type); (flag, name, type) as the integration test
\* writes it; and (flag) alone
iFunctionParameterArgs ==
  {<<iParameterFlag_new(Num(f)), iParameterType_new(Str(t))>> : f \in Flags, t \in TypeTags}
  \cup {<<iParameterFlag_new(Num(0)), iParameterName_new(<<Str(txt_account)>>),
          iParameterType_new(Str(ACCOUNT))>>,
        <<iParameterFlag_new(Num(0)), iParameterName_new(<<Str(txt_amount)>>),
          iParameterType_new(Str(AMOUNT))>>,
        <<iParameterFlag_new(Num(0))>>}

\* new iInstanceParameter(flag, type); (flag, name, type) as the integration test
\* writes it
iInstanceParameterArgs ==
  {<<iParameterFlag_new(Num(f)), iParameterType_new(Str(t))>> : f \in Flags, t \in TypeTags}
  \cup {<<iParameterFlag_new(Num(tfSendAmount)),
          iParameterName_new(<<Str(hex_amount), Bool(TRUE)>>),
          iParameterType_new(Str(AMOUNT))>>}

\* new iParameter(flag, type, value); (type, value) as the usage example writes it
iParameterArgs ==
  {<<iParameterFlag_new(Num(f)), iParameterType_new(Str(t)), iParameterValue_new(v)>> :
     f \in Flags, t \in TypeTags, v \in Values}
  \cup {<<iParameterType_new(Str(UINT8)), iParameterValue_new(Num(1))>>}

NameTexts == {txt_base, txt_amount, txt_cafe, hex_base, hex_amount, <<>>}

iParameterNameArgs ==
  {<<Str(t)>> : t \in NameTexts} \cup {<<Str(t), Bool(b)>> : t \in NameTexts, b \in BOOLEAN}

FunctionNames ==
  {iFunctionName_new(<<Str(t)>>) : t \in {txt_base, txt_cafe, <<>>}}
  \cup {iFunctionName_new(<<Str(t), Bool(TRUE)>>) : t \in {hex_base, txt_base}}

\* the elements of the short parameter lists
ListParameters ==
  {iFunctionParameter_new(<<iParameterFlag_new(Num(0)), iParameterType_new(Str(ACCOUNT))>>),
   iFunctionParameter_new(<<iParameterFlag_new(Num(0)), iParameterType_new(Str(AMOUNT))>>),
   iFunctionParameter_new(<<iParameterFlag_new(Num(tfSendAmount)), iParameterType_new(Str(AMOUNT))>>),
   iFunctionParameter_new(<<iParameterFlag_new(Num(0))>>)}

\* a list of n declarations, ACCOUNT and AMOUNT in turn
LongParameters(n) ==
  [i \in 1 .. n |->
     iFunctionParameter_new(<<iParameterFlag_new(Num(0)),
                              iParameterType_new(Str(IF i % 2 = 1 THEN ACCOUNT ELSE AMOUNT))>>)]

ParameterLists ==
  {Undefined, Null}
  \cup {Array(l) : l \in SeqsUpTo(ListParameters, MaxShortLen)}
  \cup {Array(LongParameters(n)) :
          n \in MaxFunctionParameters .. (MaxFunctionParameters + MaxOver)}

\* new iFunction(name, parameters): every name with no parameters and with one,
\* and every parameter list under the name "base"
iFunctionArgs ==
  {<<n, ps>> : n \in FunctionNames,
               ps \in {Undefined, Null} \cup {Array(l) : l \in SeqsUpTo(ListParameters, 1)}}
  \cup {<<iFunctionName_new(<<Str(txt_base)>>), ps>> : ps \in ParameterLists}

\* the arguments of the fromHex calls
HexTypes == TypeTags \cup {txt_account}

HexValues == {drops_2000, hex_amount}

\* hex strings given to iParameterName.fromHex: the hex of every name text, a
\* lower-case one ("6a") and one that is no UTF-8 ("FF")
HexNames ==
  {convertStringToHex(t) : t \in NameTexts} \cup {<<54, 97>>, <<70, 70>>}

HexFunctionNames == {txt_base, hex_base}

HexParameterLists ==
  {Array(l) : l \in SeqsUpTo({iFunctionParameter_new(<<iParameterFlag_new(Num(0)),
                                                      iParameterType_new(Str(AMOUNT))>>)}, 1)}

----------------------------------------------------------------------------
(* The ContractCreate assembly of the callers *)

\* the functions of the short function lists: "base" with two parameters,
\* "transfer" as text and "transfer" already in hex
AssemblyFunctions ==
  {iFunction_new(<<iFunctionName_new(<<Str(txt_base)>>),
                   Array(<<iFunctionParameter_new(<<iParameterFlag_new(Num(0)),
                                                    iParameterType_new(Str(ACCOUNT))>>),
                           iFunctionParameter_new(<<iParameterFlag_new(Num(0)),
                                                    iParameterType_new(Str(AMOUNT))>>)>>)>>),
   iFunction_new(<<iFunctionName_new(<<Str(txt_transfer)>>), Array(<<>>)>>),
   iFunction_new(<<iFunctionName_new(<<Str(hex_transfer), Bool(TRUE)>>), Array(<<>>)>>)}

\* n functions with n different names: "fa", "fb", ...
NamedFunctions(n) ==
  [i \in 1 .. n |-> iFunction_new(<<iFunctionName_new(<<Str(<<102, 96 + i>>)>>), Array(<<>>)>>)]

FunctionLists ==
  SeqsUpTo(AssemblyFunctions, MaxShortFns)
  \cup {NamedFunctions(n) : n \in MaxFunctions .. (MaxFunctions + MaxOver)}

\* the instance parameters and the instance parameter values of one assembly
InstanceLists ==
  LET amountFlag == iParameterFlag_new(Num(tfSendAmount))
      amountType == iParameterType_new(Str(AMOUNT))
      ip  == iInstanceParameter_new(<<amountFlag, amountType>>)
      ipv == iInstanceParameterValue_new(<<amountFlag, amountType,
                                           iParameterValue_new(Str(drops_2000))>>)
      ip8 == iInstanceParameter_new(<<iParameterFlag_new(Num(0)),
                                      iParameterType_new(Str(UINT8))>>)
  IN {<< <<>>, <<>> >>, << <<ip>>, <<ipv>> >>, << <<ip>>, <<>> >>, << <<ip8>>, <<ipv>> >>,
      << <<ip, ip>>, <<ipv, ipv>> >>}

\* the assemblies: every function list with the integration test's instance
\* parameter, and every pair of instance lists with the test's function list
Assemblies ==
  LET il == CHOOSE x \in InstanceLists : Len(x[1]) = 1 /\ Len(x[2]) = 1
                                         /\ x[1][1].type = x[2][1].type
      fs == CHOOSE x \in FunctionLists : Len(x) = 1 /\ x[1].name.value = Str(txt_base)
  IN {<<il[1], il[2], x>> : x \in FunctionLists}
     \cup {<<x[1], x[2], fs>> : x \in InstanceLists}

builtTxn(instanceParams, instanceParamValues, functions) ==
  LET ips  == Map([i \in 1 .. Len(instanceParams) |-> iInstanceParameter_toXrpl(instanceParams[i])])
      ipvs == Map([i \in 1 .. Len(instanceParamValues) |-> iInstanceParameterValue_toXrpl(instanceParamValues[i])])
      fns  == Map([i \in 1 .. Len(functions) |-> iFunction_toXrpl(functions[i])])
  IN IF ~ips.ok THEN ips
     ELSE IF ~ipvs.ok THEN ipvs
     ELSE IF ~fns.ok THEN fns
     ELSE Ok([TransactionType |-> "ContractCreate",
              Account |-> "alice",
              ContractCode |-> "wasm",
              Flags |-> tfImmutable,
              InstanceParameters |-> ips.val,
              InstanceParameterValues |-> ipvs.val,
              Functions |-> fns.val,
              Fee |-> "2000000"])

----------------------------------------------------------------------------
(* State machine *)

Call(op, args, res) == [op |-> op, args |-> args, res |-> res]

Quiet ==
  /\ self = Null
  /\ made = Call("none", <<>>, Ok(Undefined))
  /\ out = Call("none", <<>>, Ok(Undefined))
  /\ objs = [o \in 1 .. NObjects |-> Null]
  /\ given = [o \in 1 .. NObjects |-> Null]
  /\ rets = [c \in 1 .. NCallers |-> Call("none", <<>>, Ok(Undefined))]

\* no file has been built and none read
NoFiles ==
  /\ files = <<>>
  /\ read = Call("none", <<>>, Ok(Undefined))

\* the counter contract is not deployed; get_data(...).unwrap_or(0) reads the
\* data of an account that has none as 0
Undeployed ==
  /\ max_value = <<>>
  /\ counter = [a \in {"wallet", "other"} |-> <<0, 0>>]
  /\ total = [a \in {"wallet", "other"} |-> 0]
  /\ ncalls = 0
  /\ script = 0
  /\ last = [fn |-> "none", account |-> "none", step |-> <<>>, ret |-> "0",
             reward |-> FALSE, event |-> <<>>]

\* no account has token data
NoBalances ==
  /\ balance = [a \in {"alice", "bob", "carol"} |-> 0]
  /\ paid = [fn |-> "none", account |-> "none", to |-> "none", amount |-> <<>>, ret |-> "0"]
  /\ total_supply = 0
  /\ npaid = 0

Init == Quiet /\ NoFiles /\ Undeployed /\ NoBalances

\* this.fromHex(...args): assigns the fields and returns nothing
FromHex(obj, args) ==
  /\ self' = obj
  /\ made' = Call("fromHex", args, Ok(Undefined))
  /\ out' = Call("fromHex", args, Ok(Undefined))
  /\ UNCHANGED <<heap, disk, chain, bank>>

\* a call that reads this and returns res
Returns(op, res) ==
  /\ out' = Call(op, <<>>, res)
  /\ UNCHANGED <<self, made, heap, disk, chain, bank>>

\* this = new iParameter(...args)
new_iParameter ==
  \E args \in iParameterArgs :
    /\ self' = iParameter_new(args)
    /\ made' = Call("new", args, Ok(Undefined))
    /\ out' = Call("new", args, Ok(Undefined))
    /\ UNCHANGED <<heap, disk, chain, bank>>

\* this = new iFunctionParameter(...args)
new_iFunctionParameter ==
  \E args \in iFunctionParameterArgs :
    /\ self' = iFunctionParameter_new(args)
    /\ made' = Call("new", args, Ok(Undefined))
    /\ out' = Call("new", args, Ok(Undefined))
    /\ UNCHANGED <<heap, disk, chain, bank>>

\* this = new iInstanceParameter(...args)
new_iInstanceParameter ==
  \E args \in iInstanceParameterArgs :
    /\ self' = iInstanceParameter_new(args)
    /\ made' = Call("new", args, Ok(Undefined))
    /\ out' = Call("new", args, Ok(Undefined))
    /\ UNCHANGED <<heap, disk, chain, bank>>

\* this = new iParameterName(...args)
new_iParameterName ==
  \E args \in iParameterNameArgs :
    /\ self' = iParameterName_new(args)
    /\ made' = Call("new", args, Ok(Undefined))
    /\ out' = Call("new", args, Ok(Undefined))
    /\ UNCHANGED <<heap, disk, chain, bank>>

\* this = new iFunction(...args)
new_iFunction ==
  \E args \in iFunctionArgs :
    /\ self' = iFunction_new(args)
    /\ made' = Call("new", args, Ok(Undefined))
    /\ out' = Call("new", args, Ok(Undefined))
    /\ UNCHANGED <<heap, disk, chain, bank>>

call_iParameter_fromHex ==
  /\ IsA(self, "iParameter")
  /\ \E f \in Flags, t \in HexTypes, v \in HexValues :
       FromHex(iParameter_fromHex(self, f, t, v), <<Num(f), Str(t), Str(v)>>)

call_iFunctionParameter_fromHex ==
  /\ IsA(self, "iFunctionParameter")
  /\ \E f \in Flags, n \in {txt_amount}, v \in HexTypes :
       FromHex(iFunctionParameter_fromHex(self, f, n, v), <<Num(f), Str(n), Str(v)>>)

call_iInstanceParameter_fromHex ==
  /\ IsA(self, "iInstanceParameter")
  /\ \E f \in Flags, v \in HexTypes :
       FromHex(iInstanceParameter_fromHex(self, f, v), <<Num(f), Str(v)>>)

call_iFunction_fromHex ==
  /\ IsA(self, "iFunction")
  /\ \E n \in HexFunctionNames, ps \in HexParameterLists :
       FromHex(iFunction_fromHex(self, n, ps), <<Str(n), ps>>)

\* this = iParameterName.fromHex(hexValue)
call_iParameterName_fromHex ==
  \E h \in HexNames :
    /\ self' = iParameterName_fromHex(Str(h))
    /\ made' = Call("fromHex", <<Str(h)>>, Ok(Undefined))
    /\ out' = Call("fromHex", <<Str(h)>>, Ok(Undefined))
    /\ UNCHANGED <<heap, disk, chain, bank>>

call_iParameter_toXrpl ==
  IsA(self, "iParameter") /\ Returns("toXrpl", iParameter_toXrpl(self))

call_iFunctionParameter_toXrpl ==
  IsA(self, "iFunctionParameter") /\ Returns("toXrpl", iFunctionParameter_toXrpl(self))

call_iInstanceParameter_toXrpl ==
  IsA(self, "iInstanceParameter") /\ Returns("toXrpl", iInstanceParameter_toXrpl(self))

\* as call_iFunction_toXrpl, reversing this.parameters in place before mapping it
call_iFunction_toXrpl_reversing ==
  /\ IsA(self, "iFunction")
  /\ LET that == IF self.parameters.k = "array"
                 THEN [self EXCEPT !.parameters.items =
                         [i \in 1 .. Len(@) |-> @[Len(@) + 1 - i]]]
                 ELSE self
     IN /\ self' = that
        /\ out' = Call("toXrpl", <<>>, iFunction_toXrpl(that))
        /\ UNCHANGED <<made, heap, disk, chain, bank>>

call_iFunction_toXrpl ==
  IsA(self, "iFunction") /\ Returns("toXrpl", iFunction_toXrpl(self))

call_iParameterName_toHex ==
  IsA(self, "iParameterName") /\ Returns("toHex", iParameterName_toHex(self))

createContract ==
  \E a \in Assemblies :
    /\ out' = Call("createContract", a, builtTxn(a[1], a[2], a[3]))
    /\ UNCHANGED <<self, made, heap, disk, chain, bank>>

Next ==
  \/ new_iParameter
  \/ new_iFunctionParameter
  \/ new_iInstanceParameter
  \/ new_iParameterName
  \/ new_iFunction
  \/ call_iParameter_fromHex
  \/ call_iFunctionParameter_fromHex
  \/ call_iInstanceParameter_fromHex
  \/ call_iFunction_fromHex
  \/ call_iParameterName_fromHex
  \/ call_iParameter_toXrpl
  \/ call_iFunctionParameter_toXrpl
  \/ call_iInstanceParameter_toXrpl
  \/ call_iFunction_toXrpl
  \/ call_iParameterName_toHex
  \/ createContract

Spec == Init /\ [][Next]_vars

----------------------------------------------------------------------------
(* Several callers.  The async methods of a ContractManager may be in flight
   together; each makes its toXrpl() calls between two awaits, and a toXrpl()
   call has no await of its own, so it runs to completion as one step. *)

\* the objects the two ContractManager scripts make
CallerObjects ==
  LET flag0  == iParameterFlag_new(Num(0))
      uint8  == iParameterType_new(Str(UINT8))
      functionParam1 == iFunctionParameter_new(<<flag0, uint8>>)
  IN {[cls |-> "iInstanceParameter",
       args |-> <<iParameterFlag_new(Num(tfSendAmount)), iParameterType_new(Str(AMOUNT))>>],
      [cls |-> "iFunctionParameter", args |-> <<flag0, uint8>>],
      [cls |-> "iFunction",
       args |-> <<iFunctionName_new(<<Str(txt_base)>>), Array(<<functionParam1>>)>>],
      [cls |-> "iParameter", args |-> <<flag0, uint8, iParameterValue_new(Num(1))>>],
      [cls |-> "iParameter", args |-> <<uint8, iParameterValue_new(Num(1))>>]}

\* new cls(...args)
construct(g) ==
  CASE g.cls = "iParameter"         -> iParameter_new(g.args)
    [] g.cls = "iFunctionParameter" -> iFunctionParameter_new(g.args)
    [] g.cls = "iInstanceParameter" -> iInstanceParameter_new(g.args)
    [] g.cls = "iFunction"          -> iFunction_new(g.args)

\* this.toXrpl(), by the class of this
toXrpl(this) ==
  CASE this.cls = "iParameter"         -> iParameter_toXrpl(this)
    [] this.cls = "iFunctionParameter" -> iFunctionParameter_toXrpl(this)
    [] this.cls = "iInstanceParameter" -> iInstanceParameter_toXrpl(this)
    [] this.cls = "iFunction"          -> iFunction_toXrpl(this)

\* const x = new cls(...args): slot o holds a new object; what callers had from
\* the object it replaces is gone
caller_new ==
  \E o \in 1 .. NObjects, g \in CallerObjects :
    /\ objs' = [objs EXCEPT ![o] = construct(g)]
    /\ given' = [given EXCEPT ![o] = g]
    /\ rets' = [c \in 1 .. NCallers |->
                 IF rets[c].args = <<o>> THEN Call("none", <<>>, Ok(Undefined)) ELSE rets[c]]
    /\ UNCHANGED <<object, disk, chain, bank>>

\* as caller_toXrpl, with a toXrpl() that uses up the type it has serialized
caller_toXrpl_consuming ==
  \E c \in 1 .. NCallers, o \in 1 .. NObjects :
    /\ objs[o] # Null
    /\ rets' = [rets EXCEPT ![c] = Call("toXrpl", <<o>>, toXrpl(objs[o]))]
    /\ objs' = [objs EXCEPT ![o] = IF "type" \in DOMAIN objs[o]
                                    THEN [objs[o] EXCEPT !.type = Undefined]
                                    ELSE [objs[o] EXCEPT !.parameters = Undefined]]
    /\ UNCHANGED <<object, given, disk, chain, bank>>

\* caller c evaluates x.toXrpl() on the object in slot o
caller_toXrpl ==
  \E c \in 1 .. NCallers, o \in 1 .. NObjects :
    /\ objs[o] # Null
    /\ rets' = [rets EXCEPT ![c] = Call("toXrpl", <<o>>, toXrpl(objs[o]))]
    /\ UNCHANGED <<object, objs, given, disk, chain, bank>>

NextCallers ==
  \/ caller_new
  \/ caller_toXrpl

SpecCallers == Init /\ [][NextCallers]_vars

----------------------------------------------------------------------------
(* utils.ts: reading a compiled contract *)

\* Buffer.prototype.toString('hex'): two lower-case hex digits for every byte
RECURSIVE toStringHex(_)
toStringHex(bs) ==
  LET digit(d) == IF d < 10 THEN 48 + d ELSE 87 + d
  IN IF bs = <<>> THEN <<>>
     ELSE <<digit(Head(bs) \div 16), digit(Head(bs) % 16)>> \o toStringHex(Tail(bs))

\* String.prototype.toUpperCase, for the characters of a hex string
toUpperCase(s) == [i \in 1 .. Len(s) |-> IF s[i] \in 97 .. 122 THEN s[i] - 32 ELSE s[i]]

\* as wasmToHex, without the call of toUpperCase
wasmToHex_lower(path) ==
  IF path \in DOMAIN files
  THEN Ok(Str(toStringHex(files[path])))
  ELSE Throw("ENOENT")

\* wasmToHex(path); fs.readFileSync throws for a path that names no file
wasmToHex(path) ==
  IF path \in DOMAIN files
  THEN Ok(Str(toUpperCase(toStringHex(files[path]))))
  ELSE Throw("ENOENT")

readWasmFromPath(path) == wasmToHex(path)

\* the path readWasmFromContract resolves for a contract name
ContractPath(contractName) ==
  CASE contractName = "base" -> "/cwd/build/base/wasm32v1-none/release/base.wasm"

readWasmFromContract(contractName) == wasmToHex(ContractPath(contractName))

\* the bytes a file is made of
Bytes == {0, 10, 171, 255}

FileContents == SeqsUpTo(Bytes, MaxFileLen)

\* the paths files are built at; nothing is ever built at the last one
Paths == {"/cwd/build/base/wasm32v1-none/release/base.wasm", "/tmp/counter.wasm"}

ReadPaths == Paths \cup {"/tmp/missing.wasm"}

\* cargo build writes a compiled contract
build ==
  \E p \in Paths, bs \in FileContents :
    /\ files' = [q \in DOMAIN files \cup {p} |-> IF q = p THEN bs ELSE files[q]]
    /\ read' = Call("none", <<>>, Ok(Undefined))
    /\ UNCHANGED <<chain, bank, object, heap>>

call_wasmToHex ==
  \E p \in ReadPaths :
    /\ read' = Call("wasmToHex", <<p>>, wasmToHex(p))
    /\ UNCHANGED <<chain, bank, object, heap, files>>

call_readWasmFromPath ==
  \E p \in ReadPaths :
    /\ read' = Call("readWasmFromPath", <<p>>, readWasmFromPath(p))
    /\ UNCHANGED <<chain, bank, object, heap, files>>

call_readWasmFromContract ==
  \E n \in {"base"} :
    /\ read' = Call("readWasmFromContract", <<ContractPath(n)>>, readWasmFromContract(n))
    /\ UNCHANGED <<chain, bank, object, heap, files>>

NextUtils ==
  \/ build
  \/ call_wasmToHex
  \/ call_readWasmFromPath
  \/ call_readWasmFromContract

SpecUtils == Init /\ [][NextUtils]_vars

----------------------------------------------------------------------------
(* The tutorial's counter contract (Rust, built for wasm32 in release mode).
   A u32 is the pair <<high half, low half>> of its 16-bit halves, so that
   values up to 2^32 - 1 and the carry out of an addition are computed.  The
   host calls (get_account, set_data, event.emit, emit_built_txn) succeed. *)

Half == 65536

\* the u32 of a number below 2^31
u32(n) == <<n \div Half, n % Half>>

u32_MAX == <<Half - 1, Half - 1>>

u32_gt(a, b) == a[1] > b[1] \/ (a[1] = b[1] /\ a[2] > b[2])

\* a + b as <<carry out of bit 31, the low 32 bits>>
wide_add(a, b) ==
  LET lo == a[2] + b[2]
      hi == a[1] + b[1] + (lo \div Half)
  IN <<hi \div Half, <<hi % Half, lo % Half>>>>

\* u32::saturating_add
saturating_add(a, b) == IF wide_add(a, b)[1] = 1 THEN u32_MAX ELSE wide_add(a, b)[2]

\* u32::saturating_sub
saturating_sub(a, b) ==
  IF u32_gt(b, a) \/ a = b THEN <<0, 0>>
  ELSE LET lo == a[2] - b[2]
       IN IF lo >= 0 THEN <<a[1] - b[1], lo>> ELSE <<a[1] - b[1] - 1, lo + Half>>

\* a + b on u32: when the sum does not fit, a build with overflow checks off
\* (release) keeps the low 32 bits and one with them on (debug) panics
plus(a, b) ==
  IF wide_add(a, b)[1] = 0 THEN {<<"ok", wide_add(a, b)[2]>>}
  ELSE {<<"ok", wide_add(a, b)[2]>>, <<"panic", a>>}

Accounts == {"wallet", "other"}

\* the step parameter of increment; <<>> is a call without one
Steps == {u32(0), u32(5), u32(10), u32(85), u32_MAX}

StepArgs == Steps \cup {<<>>}

\* the values of instance parameter 0
MaxValues == {u32(100), u32_MAX}

\* the calls of the tutorial's main(), in order
Script ==
  << <<"increment", u32(5)>>, <<"increment", u32(10)>>, <<"decrement", <<>>>>,
     <<"increment", u32(85)>>, <<"reset", <<>>>> >>

\* a call that the contract's code did not finish: nothing is stored or emitted
failed(ret, old, tot) ==
  [ret |-> ret, reward |-> FALSE, event |-> <<>>, counter |-> old, total |-> tot]

\* as increment, counting an increment only when the counter moved
increment_moved(old, step, max, tot) ==
  IF step = <<>> THEN {failed("-1", old, tot)}
  ELSE LET news == IF u32_gt(saturating_add(old, step), max)
                   THEN {<<"ok", max>>}
                   ELSE plus(old, step)
       IN {IF t[1] = "panic" THEN failed("trap", old, tot)
           ELSE LET new_total == IF t[2] = old THEN tot ELSE tot + 1
                IN [ret |-> "0", reward |-> (t[2] = max),
                    event |-> <<"increment", old, t[2], new_total>>,
                    counter |-> t[2], total |-> new_total] : t \in news}

\* increment(): what a call by an account whose counter is old and whose
\* total_increments is tot returns, stores and emits
increment(old, step, max, tot) ==
  IF step = <<>> THEN {failed("-1", old, tot)}
  ELSE LET news == IF u32_gt(saturating_add(old, step), max)
                   THEN {<<"ok", max>>}
                   ELSE plus(old, step)
       IN {IF t[1] = "panic" THEN failed("trap", old, tot)
           ELSE [ret |-> "0", reward |-> (t[2] = max),
                 event |-> <<"increment", old, t[2], tot + 1>>,
                 counter |-> t[2], total |-> tot + 1] : t \in news}

\* decrement()
decrement(old, tot) ==
  LET new_counter == saturating_sub(old, u32(1))
  IN [ret |-> "0", reward |-> FALSE, event |-> <<"decrement", old, new_counter, tot>>,
      counter |-> new_counter, total |-> tot]

\* reset()
reset(old, tot) ==
  [ret |-> "0", reward |-> FALSE, event |-> <<"reset", old, u32(0), tot>>,
   counter |-> u32(0), total |-> tot]

\* the ledger after a call of fn by caller that did o
Commit(fn, caller, step, o) ==
  /\ counter' = [counter EXCEPT ![caller] = o.counter]
  /\ total' = [total EXCEPT ![caller] = o.total]
  /\ ncalls' = ncalls + 1
  /\ script' = IF caller # "wallet" THEN script
               ELSE IF script >= 0 /\ script < Len(Script) /\ o.ret = "0"
                       /\ Script[script + 1] = <<fn, step>>
                    THEN script + 1
                    ELSE -1
  /\ last' = [fn |-> fn, account |-> caller, step |-> step, ret |-> o.ret,
              reward |-> o.reward, event |-> o.event]
  /\ UNCHANGED <<max_value, bank, object, heap, disk>>

\* deploy(): the ContractCreate that sets instance parameter 0
deploy ==
  /\ max_value = <<>>
  /\ \E m \in MaxValues : max_value' = m
  /\ UNCHANGED <<counter, total, ncalls, script, last, bank, object, heap, disk>>

call_increment ==
  /\ max_value # <<>> /\ ncalls < MaxCalls
  /\ \E caller \in Accounts, step \in StepArgs :
       \E o \in increment(counter[caller], step, max_value, total[caller]) :
         Commit("increment", caller, step, o)

call_decrement ==
  /\ max_value # <<>> /\ ncalls < MaxCalls
  /\ \E caller \in Accounts :
       Commit("decrement", caller, <<>>, decrement(counter[caller], total[caller]))

call_reset ==
  /\ max_value # <<>> /\ ncalls < MaxCalls
  /\ \E caller \in Accounts :
       Commit("reset", caller, <<>>, reset(counter[caller], total[caller]))

NextCounter ==
  \/ deploy
  \/ call_increment
  \/ call_decrement
  \/ call_reset

SpecCounter == Init /\ [][NextCounter]_vars

----------------------------------------------------------------------------
(* The documentation's Simple Token contract (Rust).  Balances and amounts are
   u64; the ones drawn here stay far below 2^64, so no sum leaves the type. *)

MaxBalance == 2

MaxPaid == 3

TokenAccounts == {"alice", "bob", "carol"}

\* parameter 0 of transfer and of balance_of; "none" is a call without it
ToArgs == TokenAccounts \cup {"none"}

\* parameter 1 of transfer: <<n>>, or <<>> for a call without it
AmountArgs == {<<n>> : n \in 0..(MaxBalance + 1)} \cup {<<>>}

INITIAL_SUPPLY == 1000000

\* the "balance_" data that the accounts hold when the calls begin
Holdings == [TokenAccounts -> 0..MaxBalance]

\* transfer(): <<what it returns, the balances it leaves>> for caller from
transfer(from, to, amount, bal) ==
  IF to = "none" \/ amount = <<>> THEN <<"-1", bal>>
  ELSE LET from_balance == bal[from]
       IN IF from_balance < amount[1] THEN <<"-1", bal>>
          ELSE LET to_balance == bal[to]
                   debited == [bal EXCEPT ![from] = from_balance - amount[1]]
               IN <<"0", [debited EXCEPT ![to] = to_balance + amount[1]]>>

\* the token data that some accounts already hold
InitToken ==
  /\ Quiet /\ NoFiles /\ Undeployed
  /\ balance \in Holdings
  /\ paid = [fn |-> "none", account |-> "none", to |-> "none", amount |-> <<>>, ret |-> "0"]
  /\ total_supply = 0
  /\ npaid = 0

call_initialize ==
  /\ npaid < MaxPaid
  /\ \E caller \in TokenAccounts :
       paid' = [fn |-> "initialize", account |-> caller, to |-> "none",
                amount |-> <<>>, ret |-> "0"]
  /\ total_supply' = INITIAL_SUPPLY
  /\ npaid' = npaid + 1
  /\ UNCHANGED <<balance, chain, object, heap, disk>>

call_transfer ==
  /\ npaid < MaxPaid
  /\ \E caller \in TokenAccounts, to \in ToArgs, amount \in AmountArgs :
       LET t == transfer(caller, to, amount, balance)
       IN /\ balance' = t[2]
          /\ paid' = [fn |-> "transfer", account |-> caller, to |-> to,
                      amount |-> amount, ret |-> t[1]]
  /\ npaid' = npaid + 1
  /\ UNCHANGED <<total_supply, chain, object, heap, disk>>

call_balance_of ==
  /\ npaid < MaxPaid
  /\ \E caller \in TokenAccounts, account \in ToArgs :
       paid' = [fn |-> "balance_of", account |-> caller, to |-> account,
                amount |-> <<>>,
                ret |-> IF account = "none" THEN "-1" ELSE "0"]
  /\ npaid' = npaid + 1
  /\ UNCHANGED <<balance, total_supply, chain, object, heap, disk>>

NextToken ==
  \/ call_initialize
  \/ call_transfer
  \/ call_balance_of

SpecToken == InitToken /\ [][NextToken]_vars

----------------------------------------------------------------------------
(* Properties *)

\* the parameter declarations of this function can all be serialized
Serializable(this) ==
  /\ this.parameters.k = "array"
  /\ \A i \in 1 .. Len(this.parameters.items) :
       HasProps(this.parameters.items[i].flag) /\ HasProps(this.parameters.items[i].type)

C2_ToHexIdempotent ==
  (IsA(self, "iParameterName") /\ out.op = "toHex"
   /\ self.isHex = Bool(TRUE) /\ IsWellFormedHex(self.value.s)) =>
    out.res = Ok(self.value)

\* C3: iFunction.toXrpl() of a function with k >= 1 parameters emits exactly k
\* envelopes, the i-th being the serialization of the i-th parameter; function
\* "base" with (0, ACCOUNT) and (0, AMOUNT) gives the hex of "base" and the two
\* envelopes ACCOUNT then AMOUNT.
C3_ParametersInOrder ==
  (IsA(self, "iFunction") /\ out.op = "toXrpl" /\ Serializable(self)
   /\ Len(self.parameters.items) >= 1) =>
    /\ out.res.ok
    /\ DOMAIN out.res.val.Function = {"FunctionName", "Parameters"}
    /\ Len(out.res.val.Function.Parameters) = Len(self.parameters.items)
    /\ \A i \in 1 .. Len(self.parameters.items) :
         out.res.val.Function.Parameters[i] =
           iFunctionParameter_toXrpl(self.parameters.items[i]).val
    /\ self \in {f \in AssemblyFunctions : f.name.value = Str(txt_base)} =>
         out.res.val =
           [Function |->
             [FunctionName |-> Str(hex_base),
              Parameters |->
                <<[Parameter |-> [ParameterFlag |-> Num(0),
                                  ParameterType |-> [type |-> Str(ACCOUNT)]]],
                  [Parameter |-> [ParameterFlag |-> Num(0),
                                  ParameterType |-> [type |-> Str(AMOUNT)]]]>>]]

\* C3 witness: function "base" with the parameters ACCOUNT and AMOUNT has been
\* serialized into two envelopes.
C3_Witness ==
  /\ IsA(self, "iFunction") /\ out.op = "toXrpl" /\ out.res.ok
  /\ self \in AssemblyFunctions
  /\ self.name.value = Str(txt_base)
  /\ Len(out.res.val.Function.Parameters) = 2
  /\ out.res.val.Function.Parameters[1].Parameter.ParameterType.type = Str(ACCOUNT)
  /\ out.res.val.Function.Parameters[2].Parameter.ParameterType.type = Str(AMOUNT)

\* C4: toXrpl() of an iParameter built from (flag, type, value) returns an object
\* whose only key is Parameter, holding ParameterFlag = the flag's integer and
\* ParameterValue = {type: the type tag, value: the value as supplied}.
C4_ParameterEnvelope ==
  (IsA(self, "iParameter") /\ out.op = "toXrpl"
   /\ made.op = "new" /\ Len(made.args) = 3) =>
    /\ out.res.ok
    /\ DOMAIN out.res.val = {"Parameter"}
    /\ DOMAIN out.res.val.Parameter = {"ParameterFlag", "ParameterValue"}
    /\ out.res.val.Parameter.ParameterFlag = made.args[1].value
    /\ out.res.val.Parameter.ParameterFlag.k = "number"
    /\ out.res.val.Parameter.ParameterValue =
         [type |-> made.args[2].value, value |-> made.args[3].value]

\* C4 witness: a parameter made with flag 0, type AMOUNT and a drops string has
\* been serialized.
C4_Witness ==
  /\ IsA(self, "iParameter") /\ out.op = "toXrpl" /\ out.res.ok
  /\ made.op = "new" /\ Len(made.args) = 3
  /\ out.res.val.Parameter.ParameterFlag = Num(0)
  /\ out.res.val.Parameter.ParameterValue = [type |-> Str(AMOUNT), value |-> Str(drops_2000)]

\* C5: the declaration serializers carry no value: iFunctionParameter.toXrpl()
\* returns {Parameter: {ParameterFlag, ParameterType: {type}}} and
\* iInstanceParameter.toXrpl() returns {InstanceParameter: {ParameterFlag,
\* ParameterType: {type}}}, with no ParameterValue and no value, for every flag
\* and type.
C5_DeclarationsCarryNoValue ==
  ((IsA(self, "iFunctionParameter") \/ IsA(self, "iInstanceParameter"))
   /\ out.op = "toXrpl" /\ HasProps(self.flag) /\ HasProps(self.type)) =>
    LET key == IF IsA(self, "iFunctionParameter") THEN "Parameter" ELSE "InstanceParameter"
    IN /\ out.res.ok
       /\ DOMAIN out.res.val = {key}
       /\ DOMAIN out.res.val[key] = {"ParameterFlag", "ParameterType"}
       /\ DOMAIN out.res.val[key].ParameterType = {"type"}
       /\ out.res.val[key].ParameterFlag = Value(self.flag)
       /\ out.res.val[key].ParameterType.type = Value(self.type)

\* C5 witness: an instance parameter with tfSendAmount and AMOUNT has been
\* serialized.
C5_Witness ==
  /\ IsA(self, "iInstanceParameter") /\ out.op = "toXrpl" /\ out.res.ok
  /\ out.res.val.InstanceParameter.ParameterFlag = Num(tfSendAmount)
  /\ out.res.val.InstanceParameter.ParameterType = [type |-> Str(AMOUNT)]

\* C6: an iFunctionParameter or iInstanceParameter made with the three arguments
\* (flag, name, type) serializes with ParameterType.type equal to the type tag
\* given third, not to the name given second.
C6_ThirdArgumentIsType ==
  ((IsA(self, "iFunctionParameter") \/ IsA(self, "iInstanceParameter"))
   /\ out.op = "toXrpl" /\ made.op = "new" /\ Len(made.args) = 3) =>
    LET key == IF IsA(self, "iFunctionParameter") THEN "Parameter" ELSE "InstanceParameter"
    IN /\ out.res.ok
       /\ out.res.val[key].ParameterType.type = made.args[3].value

\* C7: the flag of a call parameter is optional: an iParameter made with a type
\* and a value only serializes to an envelope with that type tag and that value.
C7_FlagOptional ==
  (IsA(self, "iParameter") /\ out.op = "toXrpl"
   /\ made.op = "new" /\ Len(made.args) = 2) =>
    /\ out.res.ok
    /\ out.res.val.Parameter.ParameterValue =
         [type |-> made.args[1].value, value |-> made.args[2].value]

\* C8: serializing a function with more than 32 parameters fails with
\* TooManyParameters; with exactly 32 it succeeds.
C8_TooManyParameters ==
  (IsA(self, "iFunction") /\ out.op = "toXrpl" /\ Serializable(self)) =>
    /\ Len(self.parameters.items) > MaxFunctionParameters =>
         out.res = Throw("TooManyParameters")
    /\ Len(self.parameters.items) = MaxFunctionParameters => out.res.ok

\* C9: a creation with more than 12 functions fails with TooManyFunctions and
\* produces no transaction body; with exactly 12 it succeeds.
C9_TooManyFunctions ==
  out.op = "createContract" =>
    /\ Len(out.args[3]) > MaxFunctions => out.res = Throw("TooManyFunctions")
    /\ Len(out.args[3]) = MaxFunctions => out.res.ok

\* C10: a creation in which two functions share their encoded name, one given
\* as text and the other in hex included, fails with DuplicateFunctionName.
C10_DuplicateFunctionName ==
  (out.op = "createContract"
   /\ \E i, j \in 1 .. Len(out.args[3]) :
        /\ i < j
        /\ iFunction_toXrpl(out.args[3][i]).val.Function.FunctionName
             = iFunction_toXrpl(out.args[3][j]).val.Function.FunctionName) =>
    out.res = Throw("DuplicateFunctionName")

\* the tfSendAmount bit (0x10000) of a flag value
CarriesSendAmount(flag) ==
  flag.k = "number" /\ (flag.n \div tfSendAmount) % 2 = 1

\* C11: serializing a call, function or instance parameter whose flag has the
\* tfSendAmount bit set and whose type is not AMOUNT fails with
\* FlagTypeMismatch; no envelope carrying that flag is returned.
C11_FlagTypeMismatch ==
  ((IsA(self, "iParameter") \/ IsA(self, "iFunctionParameter")
    \/ IsA(self, "iInstanceParameter"))
   /\ out.op = "toXrpl" /\ HasProps(self.flag) /\ HasProps(self.type)
   /\ CarriesSendAmount(Value(self.flag))
   /\ Value(self.type) # Str(AMOUNT)) =>
    out.res = Throw("FlagTypeMismatch")

\* C12: a serialized function parameter list and a serialized instance parameter
\* list hold at most one element whose flag carries tfSendAmount.
C12_AtMostOneSendAmount ==
  /\ (IsA(self, "iFunction") /\ out.op = "toXrpl" /\ out.res.ok
      /\ "Parameters" \in DOMAIN out.res.val.Function) =>
       LET ps == out.res.val.Function.Parameters
       IN Cardinality({i \in 1 .. Len(ps) :
                         CarriesSendAmount(ps[i].Parameter.ParameterFlag)}) <= 1
  /\ (out.op = "createContract" /\ out.res.ok) =>
       LET ips == out.res.val.InstanceParameters
       IN Cardinality({i \in 1 .. Len(ips) :
                         CarriesSendAmount(ips[i].InstanceParameter.ParameterFlag)}) <= 1

\* the largest value of an unsigned integer type of the given width
MaxUInt(width) == 2 ^ width - 1

\* C13: a call parameter of type UINT8 with a numeric value below 0 or above
\* 2^8 - 1 fails to serialize with ValueOutOfRange ({UINT8, 256} fails), and
\* one with a value in range serializes with that value ({UINT8, 255} gives 255).
C13_ValueOutOfRange ==
  (IsA(self, "iParameter") /\ out.op = "toXrpl"
   /\ made.op = "new" /\ Len(made.args) = 3
   /\ self.type.value = Str(UINT8) /\ self.value.value.k = "number") =>
    IF self.value.value.n < 0 \/ self.value.value.n > MaxUInt(8)
    THEN out.res = Throw("ValueOutOfRange")
    ELSE /\ out.res.ok
         /\ out.res.val.Parameter.ParameterValue.value = self.value.value

\* C14: an assembly whose instance parameters and instance parameter values
\* differ in number fails with ArityMismatch and produces no creation body.
C14_ArityMismatch ==
  (out.op = "createContract" /\ Len(out.args[1]) # Len(out.args[2])) =>
    out.res = Throw("ArityMismatch")

\* C15: an assembly in which, at some position, the declared instance parameter
\* and the supplied value differ in type tag or in flag fails with TypeMismatch.
C15_TypeMismatch ==
  (out.op = "createContract" /\ Len(out.args[1]) = Len(out.args[2])
   /\ \E i \in 1 .. Len(out.args[1]) :
        \/ Value(out.args[1][i].type) # Value(out.args[2][i].type)
        \/ Value(out.args[1][i].flag) # Value(out.args[2][i].flag)) =>
    out.res = Throw("TypeMismatch")

\* C16: serializing a function whose name is marked isHex = true and is not a
\* well-formed hex string fails with InvalidHex; the name is not emitted.
C16_InvalidHex ==
  (IsA(self, "iFunction") /\ out.op = "toXrpl"
   /\ self.name.isHex = Bool(TRUE) /\ ~IsWellFormedHex(self.name.value.s)) =>
    out.res = Throw("InvalidHex")

\* C17: serializing a function whose name is the empty string fails; no
\* envelope with an empty FunctionName is returned.
C17_EmptyFunctionName ==
  (IsA(self, "iFunction") /\ out.op = "toXrpl"
   /\ self.name.value = Str(<<>>)) =>
    ~out.res.ok

\* C18: serialization is pure: a toXrpl() call on an iParameter,
\* iFunctionParameter, iInstanceParameter or iFunction leaves every field of the
\* object as it was, and a toXrpl() call that follows another on the same
\* object returns an equal result.
C18_SerializationPure ==
  [][(out'.op = "toXrpl"
      /\ (IsA(self, "iParameter") \/ IsA(self, "iFunctionParameter")
          \/ IsA(self, "iInstanceParameter") \/ IsA(self, "iFunction"))) =>
       /\ self' = self
       /\ out.op = "toXrpl" => out'.res = out.res]_vars

\* C18 witness: a function with two parameters has been serialized and still
\* holds the name and the parameter list its constructor was given.
C18_Witness ==
  /\ IsA(self, "iFunction") /\ out.op = "toXrpl" /\ out.res.ok
  /\ made.op = "new" /\ self = iFunction_new(made.args)
  /\ self.parameters.k = "array" /\ Len(self.parameters.items) = 2
  /\ self.parameters.items[1] # self.parameters.items[2]

C20_EncodeCallsIndependent ==
  /\ \A c \in 1 .. NCallers :
       rets[c].op = "toXrpl" =>
         rets[c].res = toXrpl(construct(given[rets[c].args[1]]))
  /\ \A o \in 1 .. NObjects :
       objs[o] # Null => objs[o] = construct(given[o])

\* C20 witness: two callers hold the result of serializing the same function,
\* and a third that of serializing another object.
C20_Witness ==
  /\ rets[1].op = "toXrpl" /\ rets[2].op = "toXrpl" /\ rets[3].op = "toXrpl"
  /\ rets[1].args = rets[2].args /\ rets[3].args # rets[1].args
  /\ IsA(objs[rets[1].args[1]], "iFunction")
  /\ rets[1].res.ok /\ rets[2].res = rets[1].res
  /\ IsA(objs[rets[3].args[1]], "iParameter")

\* the type tags of the Supported Parameter Types table, as code points
KnownTypes ==
  {<<85, 73, 78, 84, 56>>,
   <<85, 73, 78, 84, 49, 54>>,
   <<85, 73, 78, 84, 51, 50>>,
   <<85, 73, 78, 84, 54, 52>>,
   <<85, 73, 78, 84, 49, 50, 56>>,
   <<85, 73, 78, 84, 49, 54, 48>>,
   <<85, 73, 78, 84, 49, 57, 50>>,
   <<85, 73, 78, 84, 50, 53, 54>>,
   <<86, 76>>,
   <<65, 67, 67, 79, 85, 78, 84>>,
   <<65, 77, 79, 85, 78, 84>>,
   <<78, 85, 77, 66, 69, 82>>,
   <<67, 85, 82, 82, 69, 78, 67, 89>>,
   <<73, 83, 83, 85, 69>>}

\* C21: when serializing some parameter of an iFunction fails, iFunction.toXrpl()
\* fails as a whole with the failure of the first such parameter and returns no
\* Function structure, neither truncated nor partly filled.
C21_FailFast ==
  (IsA(self, "iFunction") /\ out.op = "toXrpl" /\ HasProps(self.name)
   /\ self.parameters.k = "array"
   /\ \E i \in 1 .. Len(self.parameters.items) :
        ~iFunctionParameter_toXrpl(self.parameters.items[i]).ok) =>
    LET rs == [i \in 1 .. Len(self.parameters.items) |->
                 iFunctionParameter_toXrpl(self.parameters.items[i])]
        first == CHOOSE i \in 1 .. Len(rs) : ~rs[i].ok /\ \A j \in 1 .. (i - 1) : rs[j].ok
    IN /\ ~out.res.ok
       /\ "val" \notin DOMAIN out.res
       /\ out.res = rs[first]

\* C21 witness: a function whose first parameter serializes and whose second
\* does not has been serialized, and the call threw.
C21_Witness ==
  /\ IsA(self, "iFunction") /\ out.op = "toXrpl" /\ ~out.res.ok
  /\ self.parameters.k = "array" /\ Len(self.parameters.items) = 2
  /\ iFunctionParameter_toXrpl(self.parameters.items[1]).ok
  /\ ~iFunctionParameter_toXrpl(self.parameters.items[2]).ok

\* C22: no serialized Parameter, function parameter or InstanceParameter
\* envelope carries a type outside the closed set of type tags, after fromHex
\* with an arbitrary string included.
C22_UnknownType ==
  /\ (IsA(self, "iParameter") /\ out.op = "toXrpl" /\ out.res.ok) =>
       /\ out.res.val.Parameter.ParameterValue.type.k = "string"
       /\ out.res.val.Parameter.ParameterValue.type.s \in KnownTypes
  /\ (IsA(self, "iFunctionParameter") /\ out.op = "toXrpl" /\ out.res.ok) =>
       /\ out.res.val.Parameter.ParameterType.type.k = "string"
       /\ out.res.val.Parameter.ParameterType.type.s \in KnownTypes
  /\ (IsA(self, "iInstanceParameter") /\ out.op = "toXrpl" /\ out.res.ok) =>
       /\ out.res.val.InstanceParameter.ParameterType.type.k = "string"
       /\ out.res.val.InstanceParameter.ParameterType.type.s \in KnownTypes

C30_NameRoundTrip ==
  (IsA(self, "iParameterName") /\ made.op = "fromHex"
   /\ \E t \in NameTexts : made.args[1].s = convertStringToHex(t)) =>
    /\ self.isHex = Bool(FALSE)
    /\ self.value.k = "string"
    /\ \E t \in NameTexts : self.value.s = t /\ made.args[1].s = convertStringToHex(t)
    /\ out.op = "toHex" => out.res = Ok(made.args[1])

\* C30 witness: the hex of a text with a two-byte character has been decoded by
\* fromHex and encoded again by toHex.
C30_Witness ==
  /\ IsA(self, "iParameterName") /\ made.op = "fromHex" /\ out.op = "toHex"
  /\ made.args[1].s = convertStringToHex(txt_cafe)
  /\ self.value = Str(txt_cafe)
  /\ out.res.ok

\* C29: wasmToHex(path) of a file of n bytes returns 2n characters, all of 0-9
\* and A-F, the characters 2i and 2i+1 (counted from 0) encoding byte i, and
\* readWasmFromPath(p) returns what wasmToHex(p) returns.
C29_WasmToHex ==
  (read.op \in {"wasmToHex", "readWasmFromPath"} /\ read.args[1] \in DOMAIN files) =>
    LET bytes == files[read.args[1]]
        value(c) == IF c \in 48 .. 57 THEN c - 48 ELSE c - 55
    IN /\ read.res.ok
       /\ read.res.val.k = "string"
       /\ Len(read.res.val.s) = 2 * Len(bytes)
       /\ \A i \in 1 .. Len(read.res.val.s) :
            read.res.val.s[i] \in (48 .. 57) \cup (65 .. 70)
       /\ \A i \in 1 .. Len(bytes) :
            16 * value(read.res.val.s[2 * i - 1]) + value(read.res.val.s[2 * i]) = bytes[i]
       /\ read.op = "readWasmFromPath" => read.res = wasmToHex(read.args[1])

\* C29 witness: readWasmFromPath has read a file of two bytes, AB and 0A.
C29_Witness ==
  /\ read.op = "readWasmFromPath" /\ read.args[1] \in DOMAIN files
  /\ files[read.args[1]] = <<171, 10>>
  /\ read.res = Ok(Str(<<65, 66, 48, 65>>))

\* C23: with max_value = 100 and the wallet's counter starting at 0, the
\* tutorial's calls increment(5), increment(10), decrement(), increment(85)
\* end with the counter at 100 and the last increment emitting the reward.
C23_TutorialHitsMax ==
  (max_value = u32(100) /\ script = 4) =>
    /\ counter["wallet"] = u32(100)
    /\ last.account = "wallet" => last.reward

\* C25: in the counter contract every counter stays within 0 .. max_value: an
\* increment stores the sum of the counter and the step, or max_value when the
\* sum is larger, with no 32-bit overflow, and a decrement at 0 stores 0.
C25_CounterWithinBounds ==
  max_value # <<>> =>
    /\ \A a \in Accounts : ~u32_gt(counter[a], max_value)
    /\ (last.fn = "increment" /\ last.step # <<>>) =>
         /\ last.ret = "0"
         /\ LET sum == wide_add(last.event[2], last.step)
                fits == sum[1] = 0 /\ ~u32_gt(sum[2], max_value)
            IN last.event[3] = IF fits THEN sum[2] ELSE max_value
    /\ (last.fn = "decrement" /\ last.event[2] = u32(0)) => last.event[3] = u32(0)

\* C26: every successful increment raises the caller's total_increments by
\* exactly 1, also when the counter was capped or the step is 0; decrement and
\* reset leave it unchanged; no call changes the counter or the total of
\* another account.
C26_TotalIncrements ==
  [][ncalls' = ncalls + 1 =>
       /\ (last'.fn = "increment" /\ last'.ret = "0") =>
            total'[last'.account] = total[last'.account] + 1
       /\ last'.fn \in {"decrement", "reset"} =>
            total'[last'.account] = total[last'.account]
       /\ \A b \in Accounts \ {last'.account} :
            counter'[b] = counter[b] /\ total'[b] = total[b]]_vars

\* C26 witness: an increment made at the cap, which left the counter at
\* max_value, has been counted as the caller's second.
C26_Witness ==
  /\ last.fn = "increment" /\ last.ret = "0"
  /\ last.event[2] = max_value /\ last.event[3] = max_value
  /\ total[last.account] = 2
  /\ \E b \in Accounts \ {last.account} : total[b] = 1

\* C27: an increment emits the reward exactly when the counter value it stores
\* is max_value; decrement and reset never emit it; an increment made while the
\* counter is at max_value emits it again.
C27_RewardAtMax ==
  [][ncalls' = ncalls + 1 =>
       /\ (last'.fn = "increment" /\ last'.ret = "0") =>
            (last'.reward <=> counter'[last'.account] = max_value)
       /\ last'.fn \in {"decrement", "reset"} => ~last'.reward
       /\ (last'.fn = "increment" /\ last'.step # <<>>
           /\ counter[last'.account] = max_value) => last'.reward]_vars

\* the sum of all accounts' balances
TokenSum(bal) == bal["alice"] + bal["bob"] + bal["carol"]

====
